---- MODULE Spec2Model ----
(***************************************************************************)
(* percollate (index.js): the batch orchestrator generateOutput, the page  *)
(* cleaner cleanup and the bundler bundle, as a state machine.             *)
(*                                                                         *)
(* One invocation of pdf / epub / html is a JavaScript async call: it runs *)
(* synchronously up to the next await and is resumed when the awaited      *)
(* promise settles.  Every action below is one such synchronous segment,   *)
(* started by the settlement (fulfilled or rejected) of the awaited call.  *)
(* The module variable cmd is shared by all invocations of the process.    *)
(***************************************************************************)
EXTENDS Naturals, Sequences, FiniteSets, TLC

VARIABLES
    web,      \* the world: what fetching and parsing each URL yields
    cmd,      \* index.js:17, the module-level current command
    inv,      \* per invocation: position and locals of pdf/epub/html
    files,    \* the output files on disk
    pending,  \* fs.writeFile / epub-gen jobs started and not yet settled
    werrors,  \* the jobs that settled with an error
    frag      \* bundle's header and footer fragments and their styles

vars == <<web, cmd, inv, files, pending, werrors, frag>>

----------------------------------------------------------------------------
(* Bounds *)

MaxUrls == 2        \* longest URL list of an invocation
MaxUrlsConc == 1    \* longest URL list when two invocations overlap
MaxTime == 2        \* values Date.now() may return

----------------------------------------------------------------------------
(* Input domains *)

Invocations == {"A", "B"}
URLS == {"u1", "u2"}
Formats == {"pdf", "epub", "html"}

\* Titles are sequences of characters.
Titles == { <<>>, <<"a">>, <<"a", " ", "b">>, <<" ", "#", "b">> }

NoOutput == <<>>                     \* options.output undefined
OutputChoices == { NoOutput, <<"out">> }

\* What the network and Readability yield for a URL.
\*   fetch  = FALSE : got() rejects
\*   parsed = FALSE : Readability.parse() returns null
Pages ==
    { [fetch |-> FALSE, parsed |-> FALSE, title |-> <<>>],
      [fetch |-> TRUE,  parsed |-> FALSE, title |-> <<>>] }
    \cup { [fetch |-> TRUE, parsed |-> TRUE, title |-> t] : t \in Titles }

RECURSIVE SeqsUpTo(_, _)
SeqsUpTo(S, n) ==
    IF n = 0 THEN { <<>> }
    ELSE LET shorter == SeqsUpTo(S, n - 1)
         IN  shorter \cup { Append(s, x) : s \in { t \in shorter : Len(t) = n - 1 }, x \in S }

----------------------------------------------------------------------------
(* Pure helpers *)

\* slugify(string): drop the characters outside the allowed class, trim the
\* white space at both ends, turn every run of spaces/hyphens into one '-'.
Allowed(ch) == ch # "#"

RECURSIVE RemoveDisallowed(_)
RemoveDisallowed(s) ==
    IF s = <<>> THEN <<>>
    ELSE IF Allowed(Head(s)) THEN <<Head(s)>> \o RemoveDisallowed(Tail(s))
         ELSE RemoveDisallowed(Tail(s))

RECURSIVE TrimLeft(_)
TrimLeft(s) ==
    IF s # <<>> /\ Head(s) = " " THEN TrimLeft(Tail(s)) ELSE s

RECURSIVE TrimRight(_)
TrimRight(s) ==
    IF s # <<>> /\ s[Len(s)] = " " THEN TrimRight(SubSeq(s, 1, Len(s) - 1)) ELSE s

IsSep(ch) == ch = " " \/ ch = "-"

RECURSIVE CollapseSeps(_)
CollapseSeps(s) ==
    IF s = <<>> THEN <<>>
    ELSE IF IsSep(Head(s))
         THEN IF Len(s) > 1 /\ IsSep(s[2])
              THEN CollapseSeps(Tail(s))
              ELSE <<"-">> \o CollapseSeps(Tail(s))
         ELSE <<Head(s)>> \o CollapseSeps(Tail(s))

slugify(s) == CollapseSeps(TrimRight(TrimLeft(RemoveDisallowed(s))))

UntitledPage == <<"U", "n", "t", "i", "t", "l", "e", "d", " ", "p", "a", "g", "e">>

\* Mutant: the URIs are made absolute after the passes that read src/href.
Enhancements_uris_last ==
    <<"imagesAtFullSize", "singleImgToFigure", "noUselessHref",
      "wikipediaSpecific", "relativeToAbsoluteURIs">>

\* The array enhancePage walks.
Enhancements ==
    <<"relativeToAbsoluteURIs", "imagesAtFullSize", "singleImgToFigure",
      "noUselessHref", "wikipediaSpecific">>

\* fns.forEach(enhancement => enhancement(document)): the calls made on the
\* document, appended to the calls made so far.
RECURSIVE forEach(_, _)
forEach(fns, calls) ==
    IF fns = <<>> THEN calls
    ELSE forEach(Tail(fns), Append(calls, Head(fns)))

enhancePage(calls) == forEach(Enhancements, calls)

\* What cleanup does to the fetched document, in order: createDom,
\* enhancePage, new Readability(document).parse().
CleanupCalls == Append(enhancePage(<<"createDom">>), "Readability.parse")

\* { ...parsed, url }: the keys of parsed (none when parsed is null) and url.
CleanupItem(url, page) ==
    [url |-> url, parsed |-> page.parsed,
     title |-> IF page.parsed THEN page.title ELSE <<>>]

\* items[0].title || 'Untitled page'
TitleOrDefault(item) ==
    IF item.parsed /\ item.title # <<>> THEN item.title ELSE UntitledPage

\* Mutant: the single-page name is used for every non-empty list of items.
output_path_anylen(items, output, c, ts) ==
    IF output # NoOutput THEN output
    ELSE IF Len(items) >= 1
         THEN slugify(TitleOrDefault(items[1])) \o <<".", c>>
         ELSE <<"percollate-", ToString(ts), ".", c>>

\* const output_path = options.output || (items.length === 1 ? ... : ...)
output_path(items, output, c, ts) ==
    IF output # NoOutput THEN output
    ELSE IF Len(items) = 1
         THEN slugify(TitleOrDefault(items[1])) \o <<".", c>>
         ELSE <<"percollate-", ToString(ts), ".", c>>

\* Mutant: the item is put in front of the list.
push_front(items, item) == <<item>> \o items

\* items.push(item)
push(items, item) == Append(items, item)

\* Mutant: every URL is bundled on its own, whatever the options.
bundle_per_url_always(individual) == TRUE

\* if (options.individual) await bundle([item], options)
bundle_per_url(individual) == individual

\* Writing a file replaces whatever the path held.
WriteFile(fs, f) == { g \in fs : g.path # f.path } \cup { f }

FileRec(i, r, st) ==
    [path |-> r.output_path, by |-> i, call |-> r.bundles,
     fmt |-> r.branch, state |-> st, items |-> r.bitems]

----------------------------------------------------------------------------
(* The header and footer fragments of bundle *)

\* A string is the sequence of its pieces; '' is <<>>.  A fragment is the
\* sequence of the child nodes of its body: text nodes and elements, an
\* element with or without a style attribute.
Text == [elem |-> FALSE, hasStyle |-> FALSE, style |-> <<>>]
Element == [elem |-> TRUE, hasStyle |-> FALSE, style |-> <<>>]
Styled(v) == [elem |-> TRUE, hasStyle |-> TRUE, style |-> v]

\* What get_style_attribute_value may return for a selector.
Declarations == { <<>>, <<"margin:0 auto">>, <<"color:red", ";", "top:0">> }

\* The last one is the '<span></span>' taken when the template has no
\* element of the class.
FragmentBodies ==
    { <<>>,
      <<Text>>,
      <<Styled(<<>>)>>,
      <<Text, Styled(<<"margin:1px">>), Element>>,
      <<Element>> }

\* querySelector('body :first-child'): the place of the first element of the
\* body, 0 for null.
RECURSIVE first_child(_, _)
first_child(nodes, j) ==
    IF j > Len(nodes) THEN 0
    ELSE IF nodes[j].elem THEN j ELSE first_child(nodes, j + 1)

\* div.getAttribute('style') || ''
style_or_empty(node) == IF node.hasStyle THEN node.style ELSE <<>>

\* Mutant: the previous inline style is put before the extracted declarations.
style_value_previous_first(style, previous) ==
    <<"\n">> \o previous \o <<";", "\n">> \o style \o <<"\n">>

\* The template literal of setAttribute('style', ...).
style_value(style, previous) ==
    <<"\n">> \o style \o <<";", "\n">> \o previous \o <<"\n">>

\* if (div && style) div.setAttribute('style', ...)
project_style(nodes, style) ==
    LET j == first_child(nodes, 1)
    IN  IF j # 0 /\ style # <<>>
        THEN [nodes EXCEPT ![j] = Styled(style_value(style, style_or_empty(nodes[j])))]
        ELSE nodes

NoFragments ==
    [pc |-> "none", header_style |-> <<>>, footer_style |-> <<>>,
     header_in |-> <<>>, footer_in |-> <<>>, header |-> <<>>, footer |-> <<>>]

----------------------------------------------------------------------------
(* Initial state *)

IdleInv ==
    [pc |-> "idle", fmt |-> "none", urls |-> <<>>, individual |-> FALSE,
     output |-> NoOutput, k |-> 0, items |-> <<>>, bitems |-> <<>>,
     bundles |-> 0, site |-> "none", bundled |-> {}, browsers |-> 0, nwrites |-> 0,
     errAt |-> "none", output_path |-> <<>>, branch |-> "none", ts |-> 0,
     fetching |-> 0, fetchlog |-> <<>>, renders |-> 0, trace |-> <<>>]

Init ==
    /\ web \in [URLS -> Pages]
    /\ cmd = "pdf"
    /\ inv = [i \in Invocations |-> IdleInv]
    /\ files = {}
    /\ pending = {}
    /\ werrors = {}
    /\ frag = NoFragments

----------------------------------------------------------------------------
(* Steps of one invocation i *)

Set(i, r) == inv' = [inv EXCEPT ![i] = r]

\* bundle(items, options) up to its first await: the temporary HTML file is
\* rendered and written, then pup.launch() is awaited.  site is the call's
\* place in generateOutput: "loop" (line 297) or "end" (line 303).
BundleStart(r, its, site) ==
    [r EXCEPT !.bitems = its, !.bundles = @ + 1, !.pc = "launch", !.site = site,
              !.output_path = <<>>, !.branch = "none", !.ts = 0, !.renders = 0]

\* cleanup(url) up to its first await: got(url) is awaited.
CleanupStart(r, n) ==
    [r EXCEPT !.k = n, !.pc = "fetch", !.fetching = @ + 1,
              !.fetchlog = Append(@, n)]

\* The rejection of an awaited call propagates through bundle/cleanup,
\* generateOutput and pdf/epub/html: none of them catches it (cleanup's catch
\* rethrows).
Throw(r, step) == [r EXCEPT !.pc = "error", !.errAt = step]

\* generateOutput after the body of the loop has run for urls[k]: the next
\* URL is cleaned up, or the loop is left and the merged bundle is made.
LoopNext(r) ==
    IF r.k < Len(r.urls)
    THEN CleanupStart(r, r.k + 1)
    ELSE IF ~r.individual
         THEN BundleStart(r, r.items, "end")
         ELSE [r EXCEPT !.pc = "done"]

\* Mutant: generateOutput without its `if (!urls.length) return`.
Start_noguard(i, maxLen) ==
    /\ inv[i].pc = "idle"
    /\ \E f \in Formats, us \in SeqsUpTo(URLS, maxLen),
          ind \in BOOLEAN, out \in OutputChoices :
         LET r == [inv[i] EXCEPT !.fmt = f, !.urls = us,
                                 !.individual = ind, !.output = out]
         IN  /\ cmd' = f
             /\ Set(i, LoopNext(r))
    /\ UNCHANGED <<frag, web, files, pending, werrors>>

\* pdf / epub / html (urls, options): set cmd, then generateOutput.
Start(i, maxLen) ==
    /\ inv[i].pc = "idle"
    /\ \E f \in Formats, us \in SeqsUpTo(URLS, maxLen),
          ind \in BOOLEAN, out \in OutputChoices :
         LET r == [inv[i] EXCEPT !.fmt = f, !.urls = us,
                                 !.individual = ind, !.output = out]
         IN  /\ cmd' = f
             /\ IF us = <<>>
                THEN Set(i, [r EXCEPT !.pc = "done"])
                ELSE Set(i, CleanupStart(r, 1))
    /\ UNCHANGED <<frag, web, files, pending, werrors>>

\* got() fulfils: the page is enhanced and parsed, cleanup returns its item
\* and generateOutput goes on.
FetchOk(i) ==
    LET r == [inv[i] EXCEPT !.fetching = @ - 1, !.trace = CleanupCalls]
        url == r.urls[r.k]
        item == CleanupItem(url, web[url])
    IN  /\ r.pc = "fetch"
        /\ web[url].fetch
        /\ IF bundle_per_url(r.individual)
           THEN Set(i, BundleStart([r EXCEPT !.bundled = @ \cup {r.k}], <<item>>, "loop"))
           ELSE Set(i, LoopNext([r EXCEPT !.items = push(r.items, item)]))
        /\ UNCHANGED <<frag, web, cmd, files, pending, werrors>>

\* Mutant: a failed fetch is tried once more before the error is thrown.
FetchFail_retry(i) ==
    /\ inv[i].pc = "fetch"
    /\ ~web[inv[i].urls[inv[i].k]].fetch
    /\ IF Len(inv[i].fetchlog) <= Len(inv[i].urls)
       THEN Set(i, [inv[i] EXCEPT !.fetchlog = Append(@, inv[i].k)])
       ELSE Set(i, Throw([inv[i] EXCEPT !.fetching = @ - 1], "got"))
    /\ UNCHANGED <<frag, web, cmd, files, pending, werrors>>

\* got() rejects: spinner.fail, throw error.
FetchFail(i) ==
    /\ inv[i].pc = "fetch"
    /\ ~web[inv[i].urls[inv[i].k]].fetch
    /\ Set(i, Throw([inv[i] EXCEPT !.fetching = @ - 1], "got"))
    /\ UNCHANGED <<frag, web, cmd, files, pending, werrors>>

\* pup.launch() fulfils; browser.newPage() is awaited.
LaunchOk(i) ==
    /\ inv[i].pc = "launch"
    /\ Set(i, [inv[i] EXCEPT !.browsers = @ + 1, !.pc = "newPage"])
    /\ UNCHANGED <<frag, web, cmd, files, pending, werrors>>

LaunchFail(i) ==
    /\ inv[i].pc = "launch"
    /\ Set(i, Throw(inv[i], "launch"))
    /\ UNCHANGED <<frag, web, cmd, files, pending, werrors>>

\* browser.newPage() fulfils; page.goto() is awaited.
NewPageOk(i) ==
    /\ inv[i].pc = "newPage"
    /\ Set(i, [inv[i] EXCEPT !.pc = "goto"])
    /\ UNCHANGED <<frag, web, cmd, files, pending, werrors>>

NewPageFail(i) ==
    /\ inv[i].pc = "newPage"
    /\ Set(i, Throw(inv[i], "newPage"))
    /\ UNCHANGED <<frag, web, cmd, files, pending, werrors>>

\* page.goto() fulfils: the output path is named and the branch of cmd is
\* entered, up to its await (page.pdf or page.evaluate).  Date.now() is read
\* only where the timestamped name is built.
GotoOk(i) ==
    /\ inv[i].pc = "goto"
    /\ \E t \in 0..MaxTime :
         /\ (t # 0) <=> (inv[i].output = NoOutput /\ Len(inv[i].bitems) # 1)
         /\ Set(i, [inv[i] EXCEPT
                      !.ts = t,
                      !.output_path = output_path(inv[i].bitems, inv[i].output, cmd, t),
                      !.branch = cmd,
                      !.renders = @ + 1,
                      !.pc = IF cmd = "pdf" THEN "pdf" ELSE "evaluate"])
    /\ UNCHANGED <<frag, web, cmd, files, pending, werrors>>

GotoFail(i) ==
    /\ inv[i].pc = "goto"
    /\ Set(i, Throw(inv[i], "goto"))
    /\ UNCHANGED <<frag, web, cmd, files, pending, werrors>>

\* page.pdf({path}) fulfils: the PDF is on disk; browser.close() is awaited.
PdfOk(i) ==
    /\ inv[i].pc = "pdf"
    /\ files' = WriteFile(files, FileRec(i, inv[i], "complete"))
    /\ Set(i, [inv[i] EXCEPT !.nwrites = @ + 1, !.pc = "close"])
    /\ UNCHANGED <<frag, web, cmd, pending, werrors>>

\* page.pdf() rejects while printing: nothing has been written.
PdfRenderFail(i) ==
    /\ inv[i].pc = "pdf"
    /\ Set(i, Throw(inv[i], "pdf"))
    /\ UNCHANGED <<frag, web, cmd, files, pending, werrors>>

\* page.pdf() rejects while writing the printed bytes to the path.
PdfWriteFail(i) ==
    /\ inv[i].pc = "pdf"
    /\ files' = WriteFile(files, FileRec(i, inv[i], "partial"))
    /\ Set(i, Throw([inv[i] EXCEPT !.nwrites = @ + 1], "pdf_write"))
    /\ UNCHANGED <<frag, web, cmd, pending, werrors>>

\* page.evaluate() fulfils: new Epub(option, output_path) or
\* fs.writeFile(output_path, bodyHTML, callback) is started and not awaited;
\* browser.close() is awaited.
EvaluateOk(i) ==
    /\ inv[i].pc = "evaluate"
    /\ pending' = pending \cup { FileRec(i, inv[i], "complete") }
    /\ Set(i, [inv[i] EXCEPT !.nwrites = @ + 1, !.pc = "close"])
    /\ UNCHANGED <<frag, web, cmd, files, werrors>>

\* Mutant: the write is started before page.evaluate() settles.
EvaluateFail_written(i) ==
    /\ inv[i].pc = "evaluate"
    /\ pending' = pending \cup { FileRec(i, inv[i], "complete") }
    /\ Set(i, Throw(inv[i], "evaluate"))
    /\ UNCHANGED <<frag, web, cmd, files, werrors>>

\* page.evaluate() rejects.
EvaluateFail(i) ==
    /\ inv[i].pc = "evaluate"
    /\ Set(i, Throw(inv[i], "evaluate"))
    /\ UNCHANGED <<frag, web, cmd, files, pending, werrors>>

\* Mutant: bundle returns without having closed its browser.
CloseOk_leak(i) ==
    LET r == inv[i]
    IN  /\ inv[i].pc = "close"
        /\ IF r.site = "loop"
           THEN Set(i, LoopNext(r))
           ELSE Set(i, [r EXCEPT !.pc = "done"])
        /\ UNCHANGED <<frag, web, cmd, files, pending, werrors>>

\* browser.close() fulfils: bundle returns and generateOutput goes on.
CloseOk(i) ==
    LET r == [inv[i] EXCEPT !.browsers = @ - 1]
    IN  /\ inv[i].pc = "close"
        /\ IF r.site = "loop"
           THEN Set(i, LoopNext(r))
           ELSE Set(i, [r EXCEPT !.pc = "done"])
        /\ UNCHANGED <<frag, web, cmd, files, pending, werrors>>

CloseFail(i) ==
    /\ inv[i].pc = "close"
    /\ Set(i, Throw(inv[i], "close"))
    /\ UNCHANGED <<frag, web, cmd, files, pending, werrors>>

\* A started fs.writeFile / epub-gen job finishes.
WriteDone(w) ==
    /\ w \in pending
    /\ pending' = pending \ {w}
    /\ files' = WriteFile(files, w)
    /\ UNCHANGED <<frag, web, cmd, inv, werrors>>

\* A started job fails: the callback logs the error (html), the rejection of
\* the generator's promise is unhandled (epub).  The path holds nothing new or
\* a truncated file.
WriteError(w) ==
    /\ w \in pending
    /\ pending' = pending \ {w}
    /\ \/ files' = files
       \/ files' = WriteFile(files, [w EXCEPT !.state = "partial"])
    /\ werrors' = werrors \cup { [by |-> w.by, call |-> w.call, fmt |-> w.fmt] }
    /\ UNCHANGED <<frag, web, cmd, inv>>

Step(i, maxLen) ==
    \/ Start(i, maxLen)
    \/ FetchOk(i)
    \/ FetchFail(i)
    \/ LaunchOk(i)
    \/ LaunchFail(i)
    \/ NewPageOk(i)
    \/ NewPageFail(i)
    \/ GotoOk(i)
    \/ GotoFail(i)
    \/ PdfOk(i)
    \/ PdfRenderFail(i)
    \/ PdfWriteFail(i)
    \/ EvaluateOk(i)
    \/ EvaluateFail(i)
    \/ CloseOk(i)
    \/ CloseFail(i)

Settle == \E w \in pending : WriteDone(w) \/ WriteError(w)

\* One invocation in the process.
Next == Step("A", MaxUrls) \/ Settle

Spec == Init /\ [][Next]_vars

\* Two invocations that may overlap: each runs between the awaits of the other.
InitConc ==
    /\ web = [u \in URLS |-> IF u = "u1"
                              THEN [fetch |-> TRUE, parsed |-> TRUE, title |-> <<"a">>]
                              ELSE [fetch |-> FALSE, parsed |-> FALSE, title |-> <<>>]]
    /\ cmd = "pdf"
    /\ inv = [i \in Invocations |-> IdleInv]
    /\ files = {}
    /\ pending = {}
    /\ werrors = {}
    /\ frag = NoFragments

NextConc == (\E i \in Invocations : Step(i, MaxUrlsConc)) \/ Settle

SpecConc == InitConc /\ [][NextConc]_vars

\* bundle's header and footer fragments on their own: the composed document
\* and the stylesheet are the inputs, no invocation is running.
InitFragments ==
    /\ web = [u \in URLS |-> [fetch |-> FALSE, parsed |-> FALSE, title |-> <<>>]]
    /\ cmd = "pdf"
    /\ inv = [i \in Invocations |-> IdleInv]
    /\ files = {}
    /\ pending = {}
    /\ werrors = {}
    /\ \E hs \in Declarations, fs \in Declarations,
          h \in FragmentBodies, f \in FragmentBodies :
         frag = [pc |-> "composed", header_style |-> hs, footer_style |-> fs,
                 header_in |-> h, footer_in |-> f, header |-> h, footer |-> f]

\* The header, then the footer, get the declarations of their rule.
ProjectStyles ==
    /\ frag.pc = "composed"
    /\ frag' = [frag EXCEPT
                  !.pc = "projected",
                  !.header = project_style(frag.header, frag.header_style),
                  !.footer = project_style(frag.footer, frag.footer_style)]
    /\ UNCHANGED <<web, cmd, inv, files, pending, werrors>>

NextFragments == ProjectStyles

SpecFragments == InitFragments /\ [][NextFragments]_vars

----------------------------------------------------------------------------
(* Vocabulary of the properties *)

Range(q) == { q[j] : j \in DOMAIN q }

Ended(r) == r.pc \in {"done", "error"}

\* The fetch and the extraction of the URL both succeed.
PageOk(u) == web[u].fetch /\ web[u].parsed

AllOk(r) == \A j \in DOMAIN r.urls : PageOk(r.urls[j])

\* The files (on disk or being written) that bundle call c of invocation i made.
OwnFiles(i, c) == { f \in files \cup pending : f.by = i /\ f.call = c }

FilesOf(i) == { f \in files : f.by = i }

\* Every write job invocation i started has settled without an error.
WritesSettled(i) ==
    /\ \A w \in pending : w.by # i
    /\ \A e \in werrors : e.by # i

\* The PDF, EPUB or HTML step of bundle (page.pdf printing, page.evaluate)
\* raised.
RenderFailed(r) == r.pc = "error" /\ r.errAt \in {"pdf", "evaluate"}

----------------------------------------------------------------------------
(* Properties *)

\* C1: in individual mode the failure of one URL does not abort the batch:
\* once the invocation has ended (with no rendering error), every URL of the
\* list whose fetch and extraction succeed has had its own bundle call.
C1_IndividualFailureDoesNotAbort ==
    \A i \in Invocations :
        LET r == inv[i]
        IN  (r.individual /\ Ended(r) /\ r.errAt \in {"none", "got"})
            => \A j \in DOMAIN r.urls : PageOk(r.urls[j]) => j \in r.bundled

\* C2: in merged mode, when the fetch or the extraction of any URL of the list
\* fails, bundle is never called and no output file is written.
C2_MergedFailureWritesNothing ==
    \A i \in Invocations :
        LET r == inv[i]
        IN  (~r.individual /\ \E j \in DOMAIN r.urls : ~PageOk(r.urls[j]))
            => (r.bundles = 0 /\ r.nwrites = 0 /\ OwnFiles(i, 1) = {})

\* C3: cleanup never returns an item for a URL whose page Readability could
\* not parse (parse() returned null): no such item is accumulated or bundled.
C3_NullParseIsNeverAnArticle ==
    \A i \in Invocations :
        \A it \in Range(inv[i].items) \cup Range(inv[i].bitems) :
            web[it.url].parsed

\* C4: when an invocation has ended, normally or with an error, every browser
\* it launched has been closed.
C4_BrowserClosedAtEnd ==
    \A i \in Invocations : Ended(inv[i]) => inv[i].browsers = 0

\* C5: when the PDF, EPUB or HTML step of bundle raises, the failing bundle
\* call has created no file (none on disk, none being written), and the
\* invocation has stopped for good: it takes no further step.
C5_RenderFailedLeavesNoFile ==
    [][\A i \in Invocations :
          /\ RenderFailed(inv[i]) => inv'[i] = inv[i]
          /\ RenderFailed(inv'[i]) =>
                { f \in files' \cup pending' :
                    f.by = i /\ f.call = inv'[i].bundles } = {}]_vars

\* C5 witness: the second bundle call of an individual run fails in its
\* render step while the artifact of the first call is on disk.
C5_Witness ==
    \E i \in Invocations :
        /\ RenderFailed(inv[i])
        /\ inv[i].bundles = 2
        /\ OwnFiles(i, 1) # {}
        /\ OwnFiles(i, 2) = {}

\* C6: an individual run over N different URLs that all fetch and extract,
\* once done and with all its writes settled without error, has left N files
\* on disk.
C6_IndividualOneArtifactPerUrl ==
    \A i \in Invocations :
        LET r == inv[i]
            distinct == \A j, l \in DOMAIN r.urls : r.urls[j] = r.urls[l] => j = l
        IN  (r.individual /\ r.pc = "done" /\ AllOk(r) /\ distinct /\ WritesSettled(i))
            => Cardinality(FilesOf(i)) = Len(r.urls)

\* C7: every artifact an invocation produces is in the target format of that
\* invocation.
C7_ArtifactInInvocationFormat ==
    \A f \in files \cup pending : f.fmt = inv[f.by].fmt

\* C8: in merged mode with every URL fetching and extracting, bundle is called
\* at most once and only with the items of all the URLs, no more than one
\* artifact is written, and a run that is done has called bundle exactly once
\* and written exactly one artifact.
C8_MergedBundlesOnce ==
    \A i \in Invocations :
        LET r == inv[i]
        IN  (~r.individual /\ AllOk(r)) =>
               /\ r.bundles <= 1
               /\ r.nwrites <= 1
               /\ Cardinality({ f \in files \cup pending : f.by = i }) <= 1
               /\ r.bundles = 1 =>
                     /\ r.k = Len(r.urls)
                     /\ Len(r.items) = Len(r.urls)
                     /\ r.bitems = r.items
               /\ (r.pc = "done" /\ r.urls # <<>>) =>
                     /\ r.bundles = 1
                     /\ r.nwrites = 1
                     /\ WritesSettled(i) => Cardinality(FilesOf(i)) = 1

\* C8 witness: a merged run over two URLs is done, with its one artifact on
\* disk.
C8_Witness ==
    \E i \in Invocations :
        /\ ~inv[i].individual
        /\ AllOk(inv[i])
        /\ Len(inv[i].urls) = 2
        /\ inv[i].pc = "done"
        /\ inv[i].bundles = 1
        /\ Cardinality(FilesOf(i)) = 1

\* C9: the items passed to bundle in merged mode are the URLs of the list in
\* their order: as many items as URLs, the j-th item carrying the j-th URL;
\* and the items accumulated so far are always the first URLs in order.
C9_MergedOrderPreserved ==
    \A i \in Invocations :
        LET r == inv[i]
        IN  ~r.individual =>
               /\ \A j \in DOMAIN r.items : j <= Len(r.urls) /\ r.items[j].url = r.urls[j]
               /\ r.bundles >= 1 =>
                     /\ Len(r.bitems) = Len(r.urls)
                     /\ \A j \in DOMAIN r.urls : r.bitems[j].url = r.urls[j]

\* C9 witness: a merged bundle of two different URLs.
C9_Witness ==
    \E i \in Invocations :
        /\ ~inv[i].individual
        /\ inv[i].bundles = 1
        /\ Len(inv[i].urls) = 2
        /\ inv[i].urls[1] # inv[i].urls[2]
        /\ Len(inv[i].bitems) = 2

\* C10: the output path bundle chooses is options.output when given; else,
\* for exactly one item, the slug of its title ("Untitled page" when the
\* title is empty or missing) followed by "." and the target format; else
\* "percollate-<timestamp>" followed by "." and the target format.
C10_NamingPolicy ==
    \A i \in Invocations :
        LET r == inv[i]
            named == r.branch # "none"
            first == r.bitems[1]
            title == IF first.parsed /\ first.title # <<>>
                     THEN first.title ELSE UntitledPage
        IN  named =>
               /\ r.output # NoOutput => r.output_path = r.output
               /\ (r.output = NoOutput /\ Len(r.bitems) = 1) =>
                     /\ r.output_path = slugify(title) \o <<".", r.fmt>>
                     /\ \A c \in Range(slugify(title)) : c \notin {" ", "#"}
               /\ (r.output = NoOutput /\ Len(r.bitems) # 1) =>
                     r.output_path = <<"percollate-", ToString(r.ts), ".", r.fmt>>

\* C10 witness: the three cases are told apart by one run each; this one is
\* the merged bundle of two items named by the timestamp.
C10_Witness ==
    \E i \in Invocations :
        /\ inv[i].branch = "epub"
        /\ inv[i].output = NoOutput
        /\ Len(inv[i].bitems) = 2
        /\ inv[i].output_path = <<"percollate-", "2", ".", "epub">>

\* The places of a call in the sequence of calls made on a document.
Places(calls, name) == { j \in DOMAIN calls : calls[j] = name }

\* C11: when the write of the HTML output file fails, the html invocation
\* does not end normally (it ends in an error, never reporting "All done").
C11_HtmlWriteFailureIsFatal ==
    \A e \in werrors :
        (e.fmt = "html" /\ Ended(inv[e.by])) => inv[e.by].pc = "error"

\* C12: a bundle call closes its browser and returns only after its artifact
\* has been written: a write still in progress belongs to the bundle call its
\* invocation is in, which has not got past browser.close().
C12_BundleReturnsAfterWritten ==
    \A w \in pending :
        /\ inv[w.by].bundles = w.call
        /\ inv[w.by].pc \in {"close", "error"}

\* C13: within one invocation at most one fetch is in flight and at most one
\* browser is open; the URLs are fetched in their order, and while URL k is
\* being fetched no browser is open and the URLs before k are done with:
\* cleaned up and accumulated (merged) or bundled, the call returned
\* (individual).
C13_StrictlySequential ==
    \A i \in Invocations :
        LET r == inv[i]
        IN  /\ r.fetching <= 1
            /\ r.browsers <= 1
            /\ r.fetchlog = [j \in 1..r.k |-> j]
            /\ (r.fetching = 1) <=> (r.pc = "fetch")
            /\ r.pc = "fetch" =>
                  /\ r.browsers = 0
                  /\ IF r.individual
                     THEN r.bundles = r.k - 1 /\ r.bundled = 1..(r.k - 1)
                     ELSE Len(r.items) = r.k - 1 /\ r.bundles = 0

\* C13 witness: the second URL of an individual run is being fetched, after
\* the bundle call of the first has launched and closed its browser.
C13_Witness ==
    \E i \in Invocations :
        /\ inv[i].individual
        /\ inv[i].pc = "fetch"
        /\ inv[i].k = 2
        /\ inv[i].bundles = 1
        /\ inv[i].browsers = 0

\* C14: bundle is never called with an empty list of items, and an invocation
\* with no URL is done at once: no fetch, no bundle call, no browser, no file.
C14_BundleNeverEmpty ==
    \A i \in Invocations :
        LET r == inv[i]
        IN  /\ r.bundles >= 1 => Len(r.bitems) >= 1
            /\ (r.pc # "idle" /\ r.urls = <<>>) =>
                  /\ r.pc = "done"
                  /\ r.fetchlog = <<>>
                  /\ r.bundles = 0
                  /\ r.browsers = 0
                  /\ r.nwrites = 0
                  /\ { f \in files \cup pending : f.by = i } = {}

\* C14 witness: an invocation with no URL has returned.
C14_Witness ==
    \E i \in Invocations :
        /\ inv[i].fmt # "none"
        /\ inv[i].urls = <<>>
        /\ inv[i].pc = "done"

\* C15: on every fetched document each of the five enhancement passes is
\* called exactly once, relativeToAbsoluteURIs before imagesAtFullSize,
\* singleImgToFigure and noUselessHref, and Readability.parse is called once,
\* after all five; an item exists only for a document treated this way.
C15_EnhancementsBeforeExtraction ==
    \A i \in Invocations :
        LET t == inv[i].trace
            at(name) == CHOOSE j \in Places(t, name) : TRUE
            passes == {"relativeToAbsoluteURIs", "imagesAtFullSize",
                       "singleImgToFigure", "noUselessHref", "wikipediaSpecific"}
        IN  /\ (inv[i].items # <<>> \/ inv[i].bitems # <<>>) => t # <<>>
            /\ t # <<>> =>
                  /\ \A n \in passes \cup {"Readability.parse"} :
                        Cardinality(Places(t, n)) = 1
                  /\ \A n \in {"imagesAtFullSize", "singleImgToFigure", "noUselessHref"} :
                        at("relativeToAbsoluteURIs") < at(n)
                  /\ \A n \in passes : at(n) < at("Readability.parse")

\* C15 witness: a document has been fetched, enhanced and parsed, and its
\* item handed to bundle.
C15_Witness ==
    \E i \in Invocations :
        /\ inv[i].trace # <<>>
        /\ inv[i].bitems # <<>>
        /\ inv[i].bitems[1].parsed

\* C17: no retries.  No URL of the list is fetched twice, no bundle call makes
\* more than one render call, a rejected fetch or render ends the invocation
\* in the same step, and an invocation that has ended in an error takes no
\* further step.
C17_NoRetries ==
    [][\A i \in Invocations :
          LET r == inv[i]
              n == inv'[i]
          IN  /\ \A j, l \in DOMAIN n.fetchlog : n.fetchlog[j] = n.fetchlog[l] => j = l
              /\ n.renders <= 1
              /\ (r.pc = "fetch" /\ ~web[r.urls[r.k]].fetch /\ n # r) => n.pc = "error"
              /\ (r.pc \in {"pdf", "evaluate"} /\ n # r /\ n.errAt # "none") => n.pc = "error"
              /\ r.pc = "error" => n = r]_vars

\* C17 witness: the fetch of the second URL has failed after the first URL
\* was fetched; each was fetched once.
C17_Witness ==
    \E i \in Invocations :
        /\ inv[i].pc = "error"
        /\ inv[i].errAt = "got"
        /\ inv[i].fetchlog = <<1, 2>>

\* A style value without its white space.
RECURSIVE Squeeze(_)
Squeeze(v) ==
    IF v = <<>> THEN <<>>
    ELSE IF Head(v) = "\n" THEN Squeeze(Tail(v))
         ELSE <<Head(v)>> \o Squeeze(Tail(v))

\* The claim for one fragment: before, after, and the declarations.
Projected(before, after, style) ==
    LET elems == { j \in DOMAIN before : before[j].elem }
        j == CHOOSE e \in elems : \A o \in elems : e <= o
        previous == IF before[j].hasStyle THEN before[j].style ELSE <<>>
    IN  IF style # <<>> /\ elems # {}
        THEN /\ DOMAIN after = DOMAIN before
             /\ \A o \in DOMAIN before : o # j => after[o] = before[o]
             /\ after[j].elem /\ after[j].hasStyle
             /\ Squeeze(after[j].style) = style \o <<";">> \o previous
        ELSE after = before

\* C16: for the header and for the footer: with a non-empty declaration
\* string and a first-child element, the element's style becomes the
\* declarations, a ';', then its previous inline style (white space aside),
\* nothing else changing; otherwise the fragment is unchanged.
C16_FragmentStyleProjected ==
    frag.pc = "projected" =>
        /\ Projected(frag.header_in, frag.header, frag.header_style)
        /\ Projected(frag.footer_in, frag.footer, frag.footer_style)

\* C16 witness: the header's first element had an inline style and got the
\* declarations in front of it, while the footer, with no element, was left
\* as it was.
C16_Witness ==
    /\ frag.pc = "projected"
    /\ frag.header_in = <<Text, Styled(<<"margin:1px">>), Element>>
    /\ frag.header_style = <<"margin:0 auto">>
    /\ frag.header[2].style = <<"\n", "margin:0 auto", ";", "\n", "margin:1px", "\n">>
    /\ frag.footer_in = <<Text>>
    /\ frag.footer_style # <<>>
    /\ frag.footer = frag.footer_in

====
